---------------------------- MODULE Spec2Model ----------------------------
(***************************************************************************)
(* A model of sardana/sardanadefs.py: the construction of                  *)
(* INTERFACES_EXPANDED at module import, and the type and access           *)
(* normalisation functions to_dtype_dformat and to_daccess.                *)
(***************************************************************************)
EXTENDS Integers, Sequences, FiniteSets, TLC

VARIABLES
    INTERFACES,           \* the table of direct interfaces being expanded
    INTERFACES_EXPANDED,  \* name -> set of names, filled by the import loop
    todo,                 \* keys of INTERFACES the for loop has not visited
    pc,                   \* "init" (loop running), "done", "failed"
    error,                \* the exception that aborted the import, or "none"
    maxdepth,             \* deepest __expand recursion of the calls so far
    arg,                  \* the argument of the call of a normalisation function
    call,                 \* "none", "pending", "returned" or "raised"
    ret,                  \* what the call returned, or the exception it raised
    log,                  \* QDoor: the base handler runs and signals, in order
    modelObj,             \* editor: the door getModelObj() returns, or None
    doorConf,             \* the experiment configuration the door holds
    _localConfig,         \* editor: self._localConfig
    _originalConfiguration, \* editor: self._originalConfiguration
    activeMntGrpCB,       \* editor: items and current index of the combo box
    compressionCB,        \* editor: current index of the compression combo box
    closed,               \* editor: the widget has been closed
    lastOp,               \* editor: what the last handler did
    exchanged,            \* the configuration last read from or written to
                          \* the door
    refreshed             \* the configuration read at the last reload

importVars == <<INTERFACES, INTERFACES_EXPANDED, todo, pc, error, maxdepth>>
callVars == <<arg, call, ret>>
editorVars == <<modelObj, doorConf, _localConfig, _originalConfiguration,
                activeMntGrpCB, compressionCB, closed, lastOp, exchanged,
                refreshed>>
guiVars == <<log, editorVars>>
vars == <<INTERFACES, INTERFACES_EXPANDED, todo, pc, error, maxdepth,
          arg, call, ret, log, modelObj, doorConf, _localConfig,
          _originalConfiguration, activeMntGrpCB, compressionCB, closed,
          lastOp, exchanged, refreshed>>

-----------------------------------------------------------------------------
(* Bounds *)

\* the interpreter's recursion limit (sys.getrecursionlimit()), scaled down
RecursionLimit == 8
\* number of names of the generic tables (every table over these names)
GenericNames == 2
\* the largest table whose keys are iterated in every possible order
AnyOrderMax == 9
\* the longest sequence descriptor
MaxSeqLen == 2
\* the deepest nesting of sequence descriptors
MaxNest == 3
\* the largest magnitude of the numbers handed to ScalarNumberFilter, in
\* units of 1E-17
MaxNumber == 12
\* the number of record-data events a door relays
MaxRelayed == 2
\* the number of measurement groups a door can have
MaxGroups == 2

-----------------------------------------------------------------------------
(* The static table *)

\* a parent declared as a single string
S(p) == [kind |-> "str", val |-> p]
\* parents declared as a set of strings
P(ps) == [kind |-> "set", val |-> ps]

StaticINTERFACES ==
    [n \in {"Object"} |-> P({})] @@
    ("SardanaObject" :> S("Object")) @@
    ("Element" :> S("Object")) @@
    ("SardanaElement" :> S("Element")) @@
    ("Class" :> S("SardanaObject")) @@
    ("Library" :> S("SardanaObject")) @@
    ("PoolObject" :> S("SardanaObject")) @@
    ("PoolElement" :> P({"SardanaElement", "PoolObject"})) @@
    ("Pool" :> S("PoolElement")) @@
    ("Controller" :> S("PoolElement")) @@
    ("Moveable" :> S("PoolElement")) @@
    ("Acquirable" :> S("PoolElement")) @@
    ("Instrument" :> S("PoolElement")) @@
    ("Motor" :> P({"Moveable", "Acquirable"})) @@
    ("PseudoMotor" :> P({"Moveable", "Acquirable"})) @@
    ("IORegister" :> P({"Moveable", "Acquirable"})) @@
    ("ExpChannel" :> S("Acquirable")) @@
    ("CTExpChannel" :> S("ExpChannel")) @@
    ("ZeroDExpChannel" :> S("ExpChannel")) @@
    ("OneDExpChannel" :> S("ExpChannel")) @@
    ("TwoDExpChannel" :> S("ExpChannel")) @@
    ("PseudoCounter" :> S("ExpChannel")) @@
    ("ComChannel" :> S("PoolElement")) @@
    ("MotorGroup" :> P({"Moveable", "Acquirable"})) @@
    ("MeasurementGroup" :> S("PoolElement")) @@
    ("ControllerLibrary" :> P({"Library", "PoolObject"})) @@
    ("ControllerClass" :> P({"Class", "PoolObject"})) @@
    ("Constraint" :> S("PoolObject")) @@
    ("External" :> S("Object")) @@
    ("MacroServerObject" :> S("SardanaObject")) @@
    ("MacroServerElement" :> P({"SardanaElement", "MacroServerObject"})) @@
    ("MacroServer" :> S("MacroServerElement")) @@
    ("MacroLibrary" :> P({"Library", "MacroServerObject"})) @@
    ("MacroClass" :> P({"Class", "MacroServerObject"})) @@
    ("Macro" :> S("MacroClass"))

\* the keys of the static table in the order the source declares them
InterfaceNames ==
    <<"Object", "SardanaObject", "Element", "SardanaElement", "Class",
      "Library", "PoolObject", "PoolElement", "Pool", "Controller",
      "Moveable", "Acquirable", "Instrument", "Motor", "PseudoMotor",
      "IORegister", "ExpChannel", "CTExpChannel", "ZeroDExpChannel",
      "OneDExpChannel", "TwoDExpChannel", "PseudoCounter", "ComChannel",
      "MotorGroup", "MeasurementGroup", "ControllerLibrary",
      "ControllerClass", "Constraint", "External", "MacroServerObject",
      "MacroServerElement", "MacroServer", "MacroLibrary", "MacroClass",
      "Macro">>

-----------------------------------------------------------------------------
(* Python values handed to the normalisation functions *)

\* A value is a record: tag is its Python type, val the characters of a
\* string (or the name of a type object or of an enumeration member), items
\* the elements of a list or tuple.
NoneValue == [tag |-> "NoneType", val |-> << >>, items |-> << >>]
Str(chars) == [tag |-> "str", val |-> chars, items |-> << >>]
Unicode(chars) == [tag |-> "unicode", val |-> chars, items |-> << >>]
\* a type object: int, long, float, str, bool, ...
TypeObj(name) == [tag |-> "type", val |-> <<name>>, items |-> << >>]
\* a member of the enumerations DataType and DataAccess
DataTypeValue(name) == [tag |-> "DataType", val |-> <<name>>, items |-> << >>]
DataAccessValue(name) == [tag |-> "DataAccess", val |-> <<name>>, items |-> << >>]
List(elems) == [tag |-> "list", val |-> << >>, items |-> elems]
Tuple(elems) == [tag |-> "tuple", val |-> << >>, items |-> elems]

DataType == {"Integer", "Double", "String", "Boolean", "Encoded", "Invalid"}
DataFormat == {"Scalar", "OneD", "TwoD", "Invalid"}
DataAccess == {"ReadOnly", "ReadWrite", "Invalid"}

\* None, and a value that is not None, of an attribute that holds a record
None == << >>
Some(x) == <<x>>

\* no widget and no door exists
NoGui ==
    /\ log = << >>
    /\ modelObj = "None"
    /\ doorConf = None
    /\ _localConfig = None
    /\ _originalConfiguration = None
    /\ activeMntGrpCB = [items |-> << >>, index |-> -1]
    /\ compressionCB = 0
    /\ closed = FALSE
    /\ lastOp = "none"
    /\ exchanged = None
    /\ refreshed = None

\* the value of `ret` while no call has ended
NoReturn == [exc |-> "none", value |-> << >>]
Return(v) == [exc |-> "none", value |-> v]
Raise(e) == [exc |-> e, value |-> << >>]

\* isinstance(v, (str, unicode))
IsString(v) == v.tag \in {"str", "unicode"}
\* operator.isSequenceType(v): strings, lists and tuples
IsSequenceType(v) == v.tag \in {"str", "unicode", "list", "tuple"}

RECURSIVE Hashable(_)
\* hash(v) does not raise TypeError: a list is unhashable, and so is a tuple
\* with an unhashable element
Hashable(v) ==
    CASE v.tag = "list" -> FALSE
      [] v.tag = "tuple" -> \A k \in 1..Len(v.items) : Hashable(v.items[k])
      [] OTHER -> TRUE

-----------------------------------------------------------------------------
(* Strings as sequences of characters *)

UpperCase == <<"A", "B", "C", "D", "E", "F", "G", "H", "I", "J", "K", "L", "M", "N", "O", "P", "Q", "R", "S", "T", "U", "V", "W", "X", "Y", "Z">>
LowerCase == <<"a", "b", "c", "d", "e", "f", "g", "h", "i", "j", "k", "l", "m", "n", "o", "p", "q", "r", "s", "t", "u", "v", "w", "x", "y", "z">>

LowerChar(c) ==
    IF \E k \in 1..Len(UpperCase) : UpperCase[k] = c
    THEN LowerCase[CHOOSE k \in 1..Len(UpperCase) : UpperCase[k] = c]
    ELSE c
\* s.lower()
Lower(s) == [k \in 1..Len(s) |-> LowerChar(s[k])]
\* s.startswith(p)
StartsWith(s, p) == Len(s) >= Len(p) /\ SubSeq(s, 1, Len(p)) = p
\* s.endswith(p)
EndsWith(s, p) ==
    Len(s) >= Len(p) /\ SubSeq(s, Len(s) - Len(p) + 1, Len(s)) = p
\* s[n:]
Drop(s, n) == SubSeq(s, n + 1, Len(s))
\* s[:n]
Take(s, n) == SubSeq(s, 1, n)
\* sub occurs in s at the 0-based offset k
OccursAt(s, sub, k) ==
    k + Len(sub) <= Len(s) /\ SubSeq(s, k + 1, k + Len(sub)) = sub
\* s.index(sub), for a sub that occurs in s: the offset of the first occurrence
Index(s, sub) ==
    CHOOSE k \in 0..Len(s) :
        OccursAt(s, sub, k) /\ \A j \in 0..(k - 1) : ~OccursAt(s, sub, j)

str_pytango == <<"p", "y", "t", "a", "n", "g", "o", ".">>
str_dev == <<"d", "e", "v">>
str_var == <<"v", "a", "r">>
str_array == <<"a", "r", "r", "a", "y">>
str_float == <<"f", "l", "o", "a", "t">>

-----------------------------------------------------------------------------
(* Element types *)

\* the members of the enumeration ElementType, by name
ElementType ==
    {"Pool", "Controller", "Motor", "CTExpChannel", "ZeroDExpChannel",
     "OneDExpChannel", "TwoDExpChannel", "ComChannel", "IORegister",
     "PseudoMotor", "PseudoCounter", "Constraint", "MotorGroup",
     "MeasurementGroup", "Instrument", "ControllerClass",
     "ControllerLibrary", "MacroClass", "MacroLibrary", "External",
     "Unknown"}

TYPE_MOVEABLE_ELEMENTS == {"Motor", "PseudoMotor", "MotorGroup"}

TYPE_ACQUIRABLE_ELEMENTS ==
    {"Motor", "CTExpChannel", "ZeroDExpChannel", "OneDExpChannel",
     "TwoDExpChannel", "ComChannel", "IORegister", "PseudoMotor",
     "PseudoCounter"}

-----------------------------------------------------------------------------
(* Graph notions used to state the properties (not used by the code) *)

\* the direct parents a table declares for a name
Parents(tbl, n) ==
    IF n \notin DOMAIN tbl THEN {}
    ELSE IF tbl[n].kind = "str" THEN {tbl[n].val} ELSE tbl[n].val

RECURSIVE ReachFrom(_, _, _)
\* the names reachable from the set `front` by zero or more parent edges
ReachFrom(tbl, front, seen) ==
    LET new == (UNION {Parents(tbl, n) : n \in front}) \ (seen \cup front)
    IN  IF new = {} THEN seen \cup front
        ELSE ReachFrom(tbl, new, seen \cup front)

\* the names reachable from n by one or more parent edges
Reach(tbl, n) == IF Parents(tbl, n) = {} THEN {}
                 ELSE ReachFrom(tbl, Parents(tbl, n), {})

HasCycle(tbl) == \E n \in DOMAIN tbl : n \in Reach(tbl, n)
HasDangling(tbl) == \E n \in DOMAIN tbl : ~(Parents(tbl, n) \subseteq DOMAIN tbl)
WellFormed(tbl) == ~HasCycle(tbl) /\ ~HasDangling(tbl)

Max(a, b) == IF a >= b THEN a ELSE b
SetMax(s) == IF s = {} THEN 0 ELSE CHOOSE m \in s : \A x \in s : x <= m

-----------------------------------------------------------------------------
(* The tables the import is run on *)

NamePool == <<"A", "B", "C", "X", "Y", "Z">>
GNames == {NamePool[i] : i \in 1..GenericNames}
GEntries == {S(p) : p \in GNames} \cup {P(ps) : ps \in SUBSET GNames}
\* every table whose keys and parents are taken from GNames (cyclic tables and
\* tables with a parent that is no key included)
GenericTables == UNION {[K -> GEntries] : K \in SUBSET GNames}

\* the spec's two scenario tables
ChainTable == ("A" :> P({})) @@ ("B" :> P({"A"})) @@ ("C" :> P({"B"}))
CycleTable == ("X" :> P({"Y"})) @@ ("Y" :> P({"X"}))

Restrict(tbl, K) == [n \in K |-> tbl[n]]
\* the static table cut down to one name and all its ancestors
SubTables ==
    {Restrict(StaticINTERFACES, ReachFrom(StaticINTERFACES, {n}, {})) :
        n \in DOMAIN StaticINTERFACES}

Tables == GenericTables \cup {ChainTable, CycleTable} \cup SubTables
              \cup {StaticINTERFACES}

-----------------------------------------------------------------------------
(* __expand *)

\* direct_expansion, after a single string has been wrapped in a 1-tuple
DirectExpansion(entry) == IF entry.kind = "str" THEN {entry.val} ELSE entry.val

RECURSIVE Expand(_, _, _, _)

\* the set exp that __expand builds from the direct expansion, the entries of
\* the parents that have one (hits) and the results of the recursive calls
\* for the others (subs), at recursion depth d
ExpandJoin(name, d, direct_expansion, hits, subs) ==
    [errs  |-> UNION {r.errs : r \in subs},
     val   |-> direct_expansion \cup UNION hits \cup UNION {r.val : r \in subs}
                 \cup {name},
     depth |-> Max(d, SetMax({r.depth : r \in subs}))]

\* __expand with the recursive call on a name without entry left out
Expand_NoRecursion(name, cache, tbl, d) ==
    LET direct_expansion == DirectExpansion(tbl[name])
    IN  ExpandJoin(name, d, direct_expansion,
                   {cache[e] : e \in direct_expansion \cap DOMAIN cache}, {})

\* __expand with the update from an existing entry left out
Expand_IgnoreEntry(name, cache, tbl, d) ==
    IF d > RecursionLimit
    THEN [errs |-> {"RuntimeError"}, val |-> {}, depth |-> RecursionLimit]
    ELSE IF name \notin DOMAIN tbl
    THEN [errs |-> {"KeyError"}, val |-> {}, depth |-> d]
    ELSE
      LET direct_expansion == DirectExpansion(tbl[name])
      IN  CHOOSE res \in
            {ExpandJoin(name, d, direct_expansion, {}, subs) :
               subs \in {{Expand(e, cache, tbl, d + 1) :
                            e \in direct_expansion \ DOMAIN cache}}} : TRUE

\* __expand(name) at recursion depth d, reading the table tbl and the entries
\* `cache` that INTERFACES_EXPANDED holds.  errs is the set of exceptions the
\* call can end with (which one depends on the iteration order of the set of
\* parents), empty when it returns val; depth is the deepest frame reached.
\* A call deeper than the interpreter's limit raises RuntimeError, the lookup
\* INTERFACES[name] of a name that is no key raises KeyError.
Expand(name, cache, tbl, d) ==
    IF d > RecursionLimit
    THEN [errs |-> {"RuntimeError"}, val |-> {}, depth |-> RecursionLimit]
    ELSE IF name \notin DOMAIN tbl
    THEN [errs |-> {"KeyError"}, val |-> {}, depth |-> d]
    ELSE
      LET direct_expansion == DirectExpansion(tbl[name])
      IN  CHOOSE res \in
            {ExpandJoin(name, d, direct_expansion,
                        {cache[e] : e \in direct_expansion \cap DOMAIN cache},
                        subs) :
               subs \in {{Expand(e, cache, tbl, d + 1) :
                            e \in direct_expansion \ DOMAIN cache}}} : TRUE

-----------------------------------------------------------------------------
(* Module import *)

Init ==
    /\ INTERFACES \in Tables
    /\ INTERFACES_EXPANDED = << >>
    /\ todo = DOMAIN INTERFACES
    /\ pc = "init"
    /\ error = "none"
    /\ maxdepth = 0
    /\ arg = NoneValue
    /\ call = "none"
    /\ ret = NoReturn
    /\ NoGui

Rank(n) == CHOOSE k \in 1..Len(InterfaceNames) : InterfaceNames[k] = n

\* the dictionary can yield key i next.  A dictionary yields its keys in an
\* order of its own: every order is explored for tables of up to AnyOrderMax
\* keys; of a larger table, the orders that take the first or the last
\* remaining key of the declaration order (the declaration order, its reverse
\* and their mixtures).
Yields(i) ==
    /\ i \in todo
    /\ IF Cardinality(DOMAIN INTERFACES) <= AnyOrderMax THEN TRUE
       ELSE \/ \A j \in todo : Rank(i) <= Rank(j)
            \/ \A j \in todo : Rank(i) >= Rank(j)

\* one iteration of `for i in INTERFACES: INTERFACES_EXPANDED[i] = __expand(i)`
\* that returns
Loop ==
    /\ pc = "init"
    /\ \E i \in todo :
         \E r \in {Expand(i, INTERFACES_EXPANDED, INTERFACES, 1)} :
             /\ Yields(i)
             /\ r.errs = {}
             /\ INTERFACES_EXPANDED' = (i :> r.val) @@ INTERFACES_EXPANDED
             /\ todo' = todo \ {i}
             /\ maxdepth' = Max(maxdepth, r.depth)
    /\ UNCHANGED <<INTERFACES, pc, error, callVars, guiVars>>

\* one iteration in which __expand raises: the import is aborted
LoopRaise ==
    /\ pc = "init"
    /\ \E i \in todo :
         \E r \in {Expand(i, INTERFACES_EXPANDED, INTERFACES, 1)} :
             \E x \in r.errs :
               /\ Yields(i)
               /\ error' = x
               /\ maxdepth' = IF x = "RuntimeError" THEN RecursionLimit
                              ELSE maxdepth
    /\ pc' = "failed"
    /\ UNCHANGED <<INTERFACES, INTERFACES_EXPANDED, todo, callVars, guiVars>>

\* the for loop left one key early
LoopExit_Early ==
    /\ pc = "init"
    /\ Cardinality(todo) <= 1
    /\ pc' = "done"
    /\ UNCHANGED <<INTERFACES, INTERFACES_EXPANDED, todo, error, maxdepth,
                   callVars, guiVars>>

\* the for loop runs out of keys and the import goes on
LoopExit ==
    /\ pc = "init"
    /\ todo = {}
    /\ pc' = "done"
    /\ UNCHANGED <<INTERFACES, INTERFACES_EXPANDED, todo, error, maxdepth,
                   callVars, guiVars>>

Next == Loop \/ LoopRaise \/ LoopExit

Spec == Init /\ [][Next]_vars

\* the import runs the loop to its end: no iteration is postponed for ever
FairSpec == Spec /\ WF_vars(Next)

-----------------------------------------------------------------------------
(* Type and access normalisation *)

\* the entries of DTYPE_MAP, as pairs <<key, value>>
DTYPE_MAP ==
    {<<Str(<<"i", "n", "t">>), "Integer">>,
     <<Str(<<"i", "n", "t", "e", "g", "e", "r">>), "Integer">>,
     <<TypeObj("int"), "Integer">>,
     <<TypeObj("long"), "Integer">>,
     <<Str(<<"l", "o", "n", "g">>), "Integer">>,
     <<DataTypeValue("Integer"), "Integer">>,
     <<Str(<<"f", "l", "o", "a", "t">>), "Double">>,
     <<Str(<<"d", "o", "u", "b", "l", "e">>), "Double">>,
     <<TypeObj("float"), "Double">>,
     <<DataTypeValue("Double"), "Double">>,
     <<Str(<<"s", "t", "r">>), "String">>,
     <<Str(<<"s", "t", "r", "i", "n", "g">>), "String">>,
     <<TypeObj("str"), "String">>,
     <<DataTypeValue("String"), "String">>,
     <<Str(<<"b", "o", "o", "l">>), "Boolean">>,
     <<Str(<<"b", "o", "o", "l", "e", "a", "n">>), "Boolean">>,
     <<TypeObj("bool"), "Boolean">>,
     <<DataTypeValue("Boolean"), "Boolean">>}

\* the entries of DACCESS_MAP
DACCESS_MAP ==
    {<<Str(<<"r", "e", "a", "d">>), "ReadOnly">>,
     <<DataAccessValue("ReadOnly"), "ReadOnly">>,
     <<Str(<<"r", "e", "a", "d", "w", "r", "i", "t", "e">>), "ReadWrite">>,
     <<Str(<<"r", "e", "a", "d", "_", "w", "r", "i", "t", "e">>), "ReadWrite">>,
     <<DataAccessValue("ReadWrite"), "ReadWrite">>}

\* key equality of a dictionary: a byte string and a unicode string with the
\* same characters are equal and hash alike
KeyEq(a, b) == IF IsString(a) /\ IsString(b) THEN a.val = b.val ELSE a = b

\* map.get(key, default), for a hashable key
Get(map, key, default) ==
    IF \E e \in map : KeyEq(e[1], key)
    THEN (CHOOSE e \in map : KeyEq(e[1], key))[2]
    ELSE default

\* from_dtype_str(dtype): the pair <<simplified dtype, dformat>>
from_dtype_str(dtype) ==
    IF dtype.tag = "NoneType" THEN <<Str(str_float), "Scalar">>
    ELSE IF IsString(dtype) THEN
        LET s0 == Lower(dtype.val)
            s1 == IF StartsWith(s0, str_pytango)
                  THEN Drop(s0, Len(str_pytango)) ELSE s0
            s2 == IF StartsWith(s1, str_dev) THEN Drop(s1, Len(str_dev)) ELSE s1
            s3 == IF StartsWith(s2, str_var) THEN Drop(s2, Len(str_var)) ELSE s2
        IN  IF EndsWith(s3, str_array)
            THEN <<[dtype EXCEPT !.val = Take(s3, Index(s3, str_array))], "OneD">>
            ELSE <<[dtype EXCEPT !.val = s3], "Scalar">>
    ELSE <<dtype, "Scalar">>

\* from_access_str(access): only a byte string is transformed
from_access_str(access) ==
    IF access.tag = "str" THEN
        LET s0 == Lower(access.val)
        IN  [access EXCEPT !.val = IF StartsWith(s0, str_pytango)
                                   THEN Drop(s0, Len(str_pytango)) ELSE s0]
    ELSE access

\* len(v) and v[0] of a string, list or tuple
SeqLen(v) == IF IsString(v) THEN Len(v.val) ELSE Len(v.items)
First(v) == IF IsString(v) THEN [v EXCEPT !.val = <<v.val[1]>>] ELSE v.items[1]

\* to_dtype_dformat up to the lookup in DTYPE_MAP:
\* <<exception or "none", dtype, dformat>>
ResolveDtype(data) ==
    IF IsString(data)
    THEN <<"none", from_dtype_str(data)[1], from_dtype_str(data)[2]>>
    ELSE IF IsSequenceType(data) THEN
        IF SeqLen(data) = 0 THEN <<"IndexError", data, "OneD">>
        ELSE LET dtype == First(data)
             IN  IF dtype.tag = "str"
                 THEN <<"none", from_dtype_str(dtype)[1],
                        IF from_dtype_str(dtype)[2] = "OneD"
                        THEN "TwoD" ELSE "OneD">>
                 ELSE IF IsSequenceType(dtype) THEN
                     IF SeqLen(dtype) = 0 THEN <<"IndexError", dtype, "TwoD">>
                     ELSE IF First(dtype).tag = "str"
                     THEN <<"none", from_dtype_str(First(dtype))[1], "TwoD">>
                     ELSE <<"none", First(dtype), "TwoD">>
                 ELSE <<"none", dtype, "OneD">>
    ELSE <<"none", data, "Scalar">>

\* to_dtype_dformat(data): returns <<DataType, DataFormat>>, or raises
\* IndexError (data[0] of an empty sequence) or TypeError (DTYPE_MAP.get of
\* an unhashable key)
to_dtype_dformat(data) ==
    LET r == ResolveDtype(data)
    IN  IF r[1] # "none" THEN Raise(r[1])
        ELSE IF ~Hashable(r[2]) THEN Raise("TypeError")
        ELSE Return(<<Get(DTYPE_MAP, r[2], "Invalid"), r[3]>>)

\* to_daccess(data): returns <<DataAccess>>
to_daccess(data) ==
    IF IsString(data)
    THEN Return(<<Get(DACCESS_MAP, from_access_str(data), "ReadWrite")>>)
    ELSE Return(<<"Invalid">>)

-----------------------------------------------------------------------------
(* The arguments the normalisation functions are called with *)

Prefixes == {<<>>,
            <<"P", "y", "T", "a", "n", "g", "o", ".">>,
            <<"p", "y", "t", "a", "n", "g", "o", ".">>}
DevMarkers == {<<>>,
              <<"D", "e", "v">>,
              <<"d", "e", "v">>}
VarMarkers == {<<>>,
              <<"V", "a", "r">>,
              <<"v", "a", "r">>}
TypeNames == {<<>>,
             <<"l", "o", "n", "g">>,
             <<"L", "o", "n", "g">>,
             <<"d", "o", "u", "b", "l", "e">>,
             <<"B", "o", "o", "l", "e", "a", "n">>,
             <<"s", "t", "r">>,
             <<"e", "n", "c", "o", "d", "e", "d">>,
             <<"v">>,
             <<"w", "e", "i", "r", "d">>}
Suffixes == {<<>>,
            <<"A", "r", "r", "a", "y">>,
            <<"a", "r", "r", "a", "y">>,
            <<"a", "r", "r", "a", "y", "a", "r", "r", "a", "y">>}

\* type descriptors such as "DevVarLongArray" and "PyTango.DevDouble"
DtypeStrings ==
    {p \o d \o v \o t \o x : p \in Prefixes, d \in DevMarkers,
                             v \in VarMarkers, t \in TypeNames, x \in Suffixes}

AccessNames == {<<>>,
               <<"r", "e", "a", "d">>,
               <<"R", "E", "A", "D">>,
               <<"R", "e", "a", "d">>,
               <<"r", "e", "a", "d", "w", "r", "i", "t", "e">>,
               <<"R", "e", "a", "d", "W", "r", "i", "t", "e">>,
               <<"R", "E", "A", "D", "W", "R", "I", "T", "E">>,
               <<"r", "e", "a", "d", "_", "w", "r", "i", "t", "e">>,
               <<"R", "E", "A", "D", "_", "W", "R", "I", "T", "E">>,
               <<"R", "e", "a", "d", "_", "W", "r", "i", "t", "e">>,
               <<"w", "r", "i", "t", "e">>,
               <<"W", "R", "I", "T", "E">>,
               <<"r", "e", "a", "d", "o", "n", "l", "y">>,
               <<"w", "e", "i", "r", "d", "_", "t", "o", "k", "e", "n">>}

\* access descriptors such as "READ" and "PyTango.read_write"
AccessStrings == {p \o a : p \in Prefixes, a \in AccessNames}

TypeObjects == {TypeObj(n) : n \in {"int", "long", "float", "str", "bool", "dict"}}
DataTypeValues == {DataTypeValue(n) : n \in DataType}
DataAccessValues == {DataAccessValue(n) : n \in DataAccess}

\* the elements of the longer sequence descriptors
SeqAtoms ==
    {NoneValue, Str(<<"l", "o", "n", "g">>), Str(<<"D", "e", "v", "V", "a", "r", "L", "o", "n", "g", "A", "r", "r", "a", "y">>),
     Unicode(<<"l", "o", "n", "g">>), Unicode(<< >>), Str(<< >>),
     TypeObj("int"), DataTypeValue("Double")}

\* the lists and the tuples of the given lengths over a set of elements
ListsAndTuples(elems, lens) ==
    UNION {{List(q) : q \in [1..n -> elems]} \cup
           {Tuple(q) : q \in [1..n -> elems]} : n \in lens}

RECURSIVE Nested(_)
\* the sequence descriptors nested k deep: sequences of atoms for k = 1, and
\* empty or one-element sequences of the descriptors nested k - 1 deep above
Nested(k) ==
    IF k = 1 THEN ListsAndTuples(SeqAtoms, 0..MaxSeqLen)
    ELSE ListsAndTuples(Nested(k - 1), 0..1)

DtypeInputs ==
    {NoneValue} \cup TypeObjects \cup DataTypeValues
      \cup {Str(c) : c \in DtypeStrings} \cup {Unicode(c) : c \in DtypeStrings}
      \cup ListsAndTuples({Str(c) : c \in DtypeStrings}, {1})
      \cup ListsAndTuples({Unicode(c) : c \in DtypeStrings}, {1})
      \cup UNION {Nested(k) : k \in 1..MaxNest}

AccessInputs ==
    {NoneValue} \cup DataAccessValues \cup DataTypeValues \cup TypeObjects
      \cup {Str(c) : c \in AccessStrings} \cup {Unicode(c) : c \in AccessStrings}
      \cup ListsAndTuples({Str(<<"r", "e", "a", "d">>)}, 0..1)

-----------------------------------------------------------------------------
(* Calls of the normalisation functions, once the module is imported *)

\* INTERFACES_EXPANDED as the import of the static table leaves it
ImportedINTERFACES ==
    [n \in DOMAIN StaticINTERFACES |->
        Expand(n, << >>, StaticINTERFACES, 1).val]

Imported ==
    /\ INTERFACES = StaticINTERFACES
    /\ INTERFACES_EXPANDED = ImportedINTERFACES
    /\ todo = {}
    /\ pc = "done"
    /\ error = "none"
    /\ maxdepth = 0

TypeInit ==
    /\ Imported
    /\ arg \in DtypeInputs
    /\ call = "pending"
    /\ ret = NoReturn
    /\ NoGui

\* a call to_dtype_dformat(arg)
Call_to_dtype_dformat ==
    /\ call = "pending"
    /\ ret' = to_dtype_dformat(arg)
    /\ call' = IF ret'.exc = "none" THEN "returned" ELSE "raised"
    /\ UNCHANGED <<importVars, arg, guiVars>>

TypeNext == Call_to_dtype_dformat

TypeSpec == TypeInit /\ [][TypeNext]_vars

AccessInit ==
    /\ Imported
    /\ arg \in AccessInputs
    /\ call = "pending"
    /\ ret = NoReturn
    /\ NoGui

\* a call to_daccess(arg)
Call_to_daccess ==
    /\ call = "pending"
    /\ ret' = to_daccess(arg)
    /\ call' = IF ret'.exc = "none" THEN "returned" ELSE "raised"
    /\ UNCHANGED <<importVars, arg, guiVars>>

AccessNext == Call_to_daccess

AccessSpec == AccessInit /\ [][AccessNext]_vars

-----------------------------------------------------------------------------
(* ScalarNumberFilter *)

\* Numbers are integers counting units of 1E-17, so that two numbers can
\* differ by less than EpsilonError = 1E-16 without being equal.
EpsilonError == 10

\* the names bound at module level in sardanadefs when a filter is called:
\* its imports and its top-level definitions
ModuleGlobals ==
    {"functools", "numbers", "Enumeration", "EpsilonError", "State",
     "_SardanaServer", "SardanaServer", "DataType", "DataFormat",
     "DataAccess", "DTYPE_MAP", "DACCESS_MAP", "from_dtype_str",
     "from_access_str", "to_dtype_dformat", "to_daccess", "InvalidId",
     "InvalidAxis", "ElementType", "ET", "TYPE_ELEMENTS",
     "TYPE_GROUP_ELEMENTS", "TYPE_MOVEABLE_ELEMENTS",
     "TYPE_PHYSICAL_ELEMENTS", "TYPE_ACQUIRABLE_ELEMENTS",
     "TYPE_PSEUDO_ELEMENTS", "INTERFACES", "INTERFACES_EXPANDED", "__expand",
     "i", "numpy", "risinstance", "_is_pure_number", "is_number",
     "ScalarNumberFilter"}

\* math.fabs
fabs(x) == IF x < 0 THEN -x ELSE x

\* ScalarNumberFilter.__call__(a, b): the name fabs is looked up among the
\* module globals; when it is not bound the NameError is caught by the bare
\* except and a != b is returned
ScalarNumberFilter_call(a, b) ==
    IF "fabs" \in ModuleGlobals THEN fabs(a - b) > EpsilonError
    ELSE a # b

Numbers == (-MaxNumber)..MaxNumber

FilterInit ==
    /\ Imported
    /\ arg \in Numbers \X Numbers
    /\ call = "pending"
    /\ ret = NoReturn
    /\ NoGui

\* a call ScalarNumberFilter()(a, b)
Call_ScalarNumberFilter ==
    /\ call = "pending"
    /\ ret' = Return(<<ScalarNumberFilter_call(arg[1], arg[2])>>)
    /\ call' = "returned"
    /\ UNCHANGED <<importVars, arg, guiVars>>

FilterNext == Call_ScalarNumberFilter

FilterSpec == FilterInit /\ [][FilterNext]_vars

-----------------------------------------------------------------------------
(* QDoor.recordDataReceived *)

\* the members of taurus.core.TaurusEventType
TaurusEventType == {"Change", "Config", "Periodic", "Error"}

CHANGE_EVTS == {"Change", "Periodic"}

\* event values, and what the base handler makes of a value
EventValues == {"v1", "v2"}
RecordData == {"None", "data"}

\* BaseDoor.recordDataReceived(self, s, t, v) has run and returned res
BaseRun(t, v, res) ==
    [what |-> "BaseDoor.recordDataReceived", t |-> t, v |-> v, res |-> res]
\* self.emit(Qt.SIGNAL("recordDataUpdated"), res) for the event (t, v)
Emitted(t, v, res) ==
    [what |-> "recordDataUpdated", t |-> t, v |-> v, res |-> res]

\* the number of events relayed so far
Relayed == Len(log) \div 2

\* recordDataReceived without the test of the event type
QDoor_recordDataReceived_NoFilter ==
    /\ \E t \in TaurusEventType, v \in EventValues, res \in RecordData :
         /\ Relayed < MaxRelayed
         /\ arg' = <<t, v>>
         /\ log' = log \o <<BaseRun(t, v, res), Emitted(t, v, res)>>
         /\ ret' = Return(<<res>>)
    /\ call' = "returned"
    /\ UNCHANGED <<importVars, editorVars>>

\* QDoor.recordDataReceived(s, t, v): any event other than Change and
\* Periodic returns None at once; otherwise the base handler runs and its
\* result is emitted with the signal recordDataUpdated and returned
QDoor_recordDataReceived ==
    /\ \E t \in TaurusEventType, v \in EventValues, res \in RecordData :
         /\ arg' = <<t, v>>
         /\ IF t \notin CHANGE_EVTS
            THEN /\ log' = log
                 /\ ret' = Return(<<"None">>)
            ELSE /\ Relayed < MaxRelayed
                 /\ log' = log \o <<BaseRun(t, v, res), Emitted(t, v, res)>>
                 /\ ret' = Return(<<res>>)
    /\ call' = "returned"
    /\ UNCHANGED <<importVars, editorVars>>

DoorInit ==
    /\ Imported
    /\ NoGui
    /\ arg = <<"none", "none">>
    /\ call = "none"
    /\ ret = NoReturn

DoorNext == QDoor_recordDataReceived

DoorSpec == DoorInit /\ [][DoorNext]_vars

-----------------------------------------------------------------------------
(* ExpDescriptionEditor *)

\* Measurement group names are the numbers 1..MaxGroups, ordered as sorted()
\* orders the names; NoText is the empty string a combo box without a current
\* item reports.
MntGrpNames == 1..MaxGroups
NoText == 0

\* the entries of the compression combo box: index i stands for rank i - 1
CompressionItems == 2
DataCompressionRanks == {i - 1 : i \in 0..(CompressionItems - 1)}

\* the experiment configurations a door can hold
ExperimentConfigurations ==
    { [ActiveMntGrp |-> a, MntGrpConfigs |-> g, DataCompressionRank |-> r] :
        <<a, g, r>> \in
          { x \in MntGrpNames \X (SUBSET MntGrpNames) \X DataCompressionRanks :
              x[1] \in x[2] } }

\* sorted(names) as a sequence
RECURSIVE sorted(_)
sorted(names) ==
    IF names = {} THEN << >>
    ELSE LET least == CHOOSE n \in names : \A m \in names : n <= m
         IN <<least>> \o sorted(names \ {least})

\* copy.deepcopy(conf): an equal value that shares nothing with conf
deepcopy(conf) == conf

\* QComboBox: the box after the call, and the texts of the
\* currentIndexChanged(QString) signals the call emits
EmptyCB == [items |-> << >>, index |-> -1]
currentText(cb) ==
    IF cb.index \in 0..(Len(cb.items) - 1) THEN cb.items[cb.index + 1]
    ELSE NoText
clear(cb) ==
    [cb |-> EmptyCB, emits |-> IF cb.index # -1 THEN <<NoText>> ELSE << >>]
addItems(cb, texts) ==
    IF cb.items = << >> /\ texts # << >>
    THEN [cb |-> [items |-> texts, index |-> 0], emits |-> <<texts[1]>>]
    ELSE [cb |-> [items |-> cb.items \o texts, index |-> cb.index],
          emits |-> << >>]
findText(cb, text) ==
    IF \E i \in 1..Len(cb.items) : cb.items[i] = text
    THEN (CHOOSE i \in 1..Len(cb.items) :
            /\ cb.items[i] = text
            /\ \A j \in 1..(i - 1) : cb.items[j] # text) - 1
    ELSE -1
setCurrentIndex(cb, idx) ==
    LET i == IF idx \in 0..(Len(cb.items) - 1) THEN idx ELSE -1
        after == [cb EXCEPT !.index = i]
    IN IF i = cb.index THEN [cb |-> cb, emits |-> << >>]
       ELSE [cb |-> after, emits |-> <<currentText(after)>>]

\* onActiveMntGrpChanged(activeMntGrpName) on the local configuration `local`
onActiveMntGrpChanged(local, activeMntGrpName) ==
    IF local = None THEN local
    ELSE IF activeMntGrpName \notin local[1].MntGrpConfigs THEN local
    ELSE Some([local[1] EXCEPT !.ActiveMntGrp = activeMntGrpName])

\* onCompressionCBChanged(idx) on the local configuration `local`
onCompressionCBChanged(local, idx) ==
    IF local = None THEN local
    ELSE Some([local[1] EXCEPT !.DataCompressionRank = idx - 1])

\* the slot onActiveMntGrpChanged run for each emitted signal, in order
RECURSIVE Deliver(_, _)
Deliver(local, emits) ==
    IF emits = << >> THEN local
    ELSE Deliver(onActiveMntGrpChanged(local, emits[1]), Tail(emits))

\* setLocalConfig(conf) with the combo boxes cb and ccb: the local
\* configuration and the combo boxes when it returns
setLocalConfig(conf, cb, ccb) ==
    LET c1 == clear(cb)
        l1 == Deliver(Some(conf), c1.emits)
        c2 == addItems(c1.cb, sorted(conf.MntGrpConfigs))
        l2 == Deliver(l1, c2.emits)
        idx == findText(c2.cb, l2[1].ActiveMntGrp)
        c3 == setCurrentIndex(c2.cb, idx)
        l3 == Deliver(l2, c3.emits)
        cidx == l3[1].DataCompressionRank + 1
        l4 == IF cidx = ccb THEN l3 ELSE onCompressionCBChanged(l3, cidx)
    IN [local |-> l4, cb |-> c3.cb, ccb |-> cidx]

isDataChanged == _originalConfiguration # _localConfig

\* door.getExperimentConfiguration(): a fresh copy of what the door holds
getExperimentConfiguration == doorConf[1]

\* the part of _reloadConf after the question: nothing without a door,
\* otherwise the door's configuration is read, a deep copy of it is kept as
\* the original and the configuration itself becomes the local one
Reload(door) ==
    IF door = "None"
    THEN /\ lastOp' = "reload without door"
         /\ UNCHANGED <<_localConfig, _originalConfiguration, activeMntGrpCB,
                        compressionCB, exchanged, refreshed>>
    ELSE \E conf \in {getExperimentConfiguration} :
         \E set \in {setLocalConfig(conf, activeMntGrpCB, compressionCB)} :
           /\ _originalConfiguration' = Some(deepcopy(conf))
           /\ _localConfig' = set.local
           /\ activeMntGrpCB' = set.cb
           /\ compressionCB' = set.ccb
           /\ exchanged' = Some(conf)
           /\ refreshed' = Some(conf)
           /\ lastOp' = "reloaded"

\* setModel(model): the model is set and the configuration reloaded by force
setModel ==
    /\ ~closed
    /\ \E model \in {"None", "door"} :
         /\ modelObj' = model
         /\ Reload(model)
    /\ UNCHANGED <<importVars, callVars, log, doorConf, closed>>

\* the Reset button: _reloadConf(), which asks before it discards changes
ClickReset ==
    /\ ~closed
    /\ \E op \in {"Yes", "Cancel"} :
         IF isDataChanged /\ op # "Yes"
         THEN /\ lastOp' = "reload refused"
              /\ UNCHANGED <<_localConfig, _originalConfiguration,
                             activeMntGrpCB, compressionCB, exchanged,
                             refreshed>>
         ELSE Reload(modelObj)
    /\ UNCHANGED <<importVars, callVars, log, modelObj, doorConf, closed>>

\* the Ok (close = TRUE) and Apply (close = FALSE) buttons: a deep copy of the
\* local configuration becomes the original, then it is written to the door;
\* without a door the handler returns before the write and before the close
Accept(close) ==
    /\ _originalConfiguration' = deepcopy(_localConfig)
    /\ IF modelObj = "None"
       THEN /\ lastOp' = "accepted without door"
            /\ UNCHANGED <<doorConf, exchanged, closed>>
       ELSE /\ doorConf' = deepcopy(_localConfig)
            /\ exchanged' = deepcopy(_localConfig)
            /\ closed' = close
            /\ lastOp' = "written"
    /\ UNCHANGED <<importVars, callVars, log, modelObj, _localConfig,
                   activeMntGrpCB, compressionCB, refreshed>>

ClickOk ==
    /\ ~closed
    /\ Accept(TRUE)

ClickApply ==
    /\ ~closed
    /\ Accept(FALSE)

\* the Cancel button closes the widget
ClickCancel ==
    /\ ~closed
    /\ closed' = TRUE
    /\ lastOp' = "cancelled"
    /\ UNCHANGED <<importVars, callVars, log, modelObj, doorConf,
                   _localConfig, _originalConfiguration, activeMntGrpCB,
                   compressionCB, exchanged, refreshed>>

\* the user picks another entry of the measurement group combo box
SelectMntGrp ==
    /\ ~closed
    /\ \E idx \in 0..(Len(activeMntGrpCB.items) - 1) :
         /\ idx # activeMntGrpCB.index
         /\ \E set \in {setCurrentIndex(activeMntGrpCB, idx)} :
              /\ activeMntGrpCB' = set.cb
              /\ _localConfig' = Deliver(_localConfig, set.emits)
    /\ lastOp' = "edited"
    /\ UNCHANGED <<importVars, callVars, log, modelObj, doorConf,
                   _originalConfiguration, compressionCB, closed, exchanged,
                   refreshed>>

\* the user picks another entry of the compression combo box
SelectCompression ==
    /\ ~closed
    /\ \E idx \in 0..(CompressionItems - 1) :
         /\ idx # compressionCB
         /\ compressionCB' = idx
         /\ _localConfig' = onCompressionCBChanged(_localConfig, idx)
    /\ lastOp' = "edited"
    /\ UNCHANGED <<importVars, callVars, log, modelObj, doorConf,
                   _originalConfiguration, activeMntGrpCB, closed, exchanged,
                   refreshed>>

\* the editor built without a door, for a door that holds some configuration
EditorInit ==
    /\ Imported
    /\ arg = <<"none", "none">>
    /\ call = "none"
    /\ ret = NoReturn
    /\ log = << >>
    /\ modelObj = "None"
    /\ doorConf \in {Some(conf) : conf \in ExperimentConfigurations}
    /\ _localConfig = None
    /\ _originalConfiguration = None
    /\ activeMntGrpCB = EmptyCB
    /\ compressionCB = 0
    /\ closed = FALSE
    /\ lastOp = "none"
    /\ exchanged = None
    /\ refreshed = None

EditorNext ==
    \/ setModel
    \/ ClickReset
    \/ ClickOk
    \/ ClickApply
    \/ ClickCancel
    \/ SelectMntGrp
    \/ SelectCompression

EditorSpec == EditorInit /\ [][EditorNext]_vars

-----------------------------------------------------------------------------
(* Properties of the import *)

\* the expansion the parent edges of a table define for a name
Closure(tbl, n) == {n} \cup Reach(tbl, n)

\* C1: once the import has finished, every key n of INTERFACES has the entry
\* {n} plus exactly the names reachable from n by one or more parent edges.
C1_ExpansionIsClosure ==
    pc = "done" =>
        \A n \in DOMAIN INTERFACES :
            /\ n \in DOMAIN INTERFACES_EXPANDED
            /\ INTERFACES_EXPANDED[n] = Closure(INTERFACES, n)

\* the scenario table {A: {}, B: {A}, C: {B}} has been expanded
C1_Witness ==
    /\ pc = "done"
    /\ INTERFACES = ChainTable
    /\ INTERFACES_EXPANDED["C"] = {"A", "B", "C"}

\* C2: once the import has finished, the entry of every direct parent p of a
\* key n is a subset of the entry of n, for a parent declared as a string and
\* for parents declared as a set alike.
C2_ParentEntrySubset ==
    pc = "done" =>
        \A n \in DOMAIN INTERFACES :
            \A p \in Parents(INTERFACES, n) :
                /\ p \in DOMAIN INTERFACES_EXPANDED
                /\ n \in DOMAIN INTERFACES_EXPANDED
                /\ INTERFACES_EXPANDED[p] \subseteq INTERFACES_EXPANDED[n]

\* the static table, which declares parents both ways, has been expanded and
\* an entry holds more than the entry of a parent
C2_Witness ==
    /\ pc = "done"
    /\ INTERFACES = StaticINTERFACES
    /\ \E n, m \in DOMAIN INTERFACES :
          /\ INTERFACES[n].kind = "str" /\ INTERFACES[m].kind = "set"
          /\ \E p \in Parents(INTERFACES, n) :
                INTERFACES_EXPANDED[p] # INTERFACES_EXPANDED[n]
          /\ \E p \in Parents(INTERFACES, m) :
                INTERFACES_EXPANDED[p] # INTERFACES_EXPANDED[m]

\* C3 (as claimed): on a table with a cycle the import fails with a
\* configuration error raised by a cycle check, the recursion never runs
\* into the interpreter's limit, and no entry is ever produced.
C3_CycleDetected ==
    HasCycle(INTERFACES) =>
        /\ INTERFACES_EXPANDED = << >>
        /\ maxdepth < RecursionLimit
        /\ pc # "done"
        /\ pc = "failed" => error = "ConfigurationError"

\* C4: on a table without cycle and without missing parent the loop ends, and
\* in whatever order the keys come it ends with the one table that has the
\* closure of every key; nothing is left to be computed afterwards.
C4_TerminatesWithOneTable ==
    WellFormed(INTERFACES) =>
        <>[](/\ pc = "done"
             /\ todo = {}
             /\ INTERFACES_EXPANDED =
                    [n \in DOMAIN INTERFACES |-> Closure(INTERFACES, n)])

\* the import of the whole static table has finished although some call had
\* to expand a parent that had no entry yet
C4_Witness ==
    /\ pc = "done"
    /\ INTERFACES = StaticINTERFACES
    /\ DOMAIN INTERFACES_EXPANDED = DOMAIN StaticINTERFACES
    /\ maxdepth > 1

-----------------------------------------------------------------------------
(* Properties of the normalisation functions *)

\* the call has ended, by a return or by an exception
Ended == call \in {"returned", "raised"}

\* C5 (as claimed): to_dtype_dformat(None) returns (Double, Scalar).
C5_NoneIsDoubleScalar ==
    (Ended /\ arg = NoneValue) =>
        /\ call = "returned"
        /\ ret.value = <<"Double", "Scalar">>

\* the keys of DTYPE_MAP
DtypeKeys == {e[1] : e \in DTYPE_MAP}

\* C6 (as claimed): to_dtype_dformat never raises: for every descriptor it
\* returns a pair (DataType, DataFormat), with DataType.Invalid when the
\* resolved token is no key of the type-name table.
C6_NeverRaises ==
    Ended =>
        /\ call = "returned"
        /\ ret.value[1] \in DataType
        /\ ret.value[2] \in DataFormat
        /\ (\A k \in DtypeKeys : ~KeyEq(k, ResolveDtype(arg)[2]))
              => ret.value[1] = "Invalid"

\* the format one dimension above a format
OneHigher(dformat) ==
    CASE dformat = "Scalar" -> "OneD"
      [] dformat = "OneD" -> "TwoD"
      [] OTHER -> "none"

\* the string ends in "array", in any letter case
EndsInArray(v) == IsString(v) /\ EndsWith(Lower(v.val), str_array)
\* the string without its last five characters
WithoutArray(v) == [v EXCEPT !.val = Take(v.val, Len(v.val) - Len(str_array))]

\* the DataFormat to_dtype_dformat returns, "none" if it raises
FormatOf(v) ==
    IF to_dtype_dformat(v).exc = "none" THEN to_dtype_dformat(v).value[2]
    ELSE "none"

\* C7 (as claimed): for a string d that ends in "array" the returned format
\* is one dimension above the format returned for d without the suffix, and
\* the format of a one-element sequence holding d is one dimension above the
\* format of the one-element sequence holding d without the suffix.
C7_ArrayRaisesFormat ==
    Ended =>
        /\ EndsInArray(arg) =>
              /\ call = "returned"
              /\ ret.value[2] = OneHigher(FormatOf(WithoutArray(arg)))
        /\ (arg.tag \in {"list", "tuple"} /\ Len(arg.items) = 1
              /\ EndsInArray(arg.items[1])) =>
              /\ call = "returned"
              /\ ret.value[2] =
                   OneHigher(FormatOf([arg EXCEPT
                       !.items = <<WithoutArray(arg.items[1])>>]))

\* the characters of an access string, case-folded and without the
\* "pytango." prefix
AccessToken(v) ==
    IF StartsWith(Lower(v.val), str_pytango)
    THEN Drop(Lower(v.val), Len(str_pytango))
    ELSE Lower(v.val)

\* C8 (as claimed): for a byte string and for a unicode string alike, any
\* casing of "read" (with or without the "pytango." prefix) yields ReadOnly
\* and every other string yields ReadWrite.
C8_AccessStrings ==
    (Ended /\ IsString(arg)) =>
        /\ call = "returned"
        /\ ret.value = IF AccessToken(arg) = <<"r", "e", "a", "d">>
                       THEN <<"ReadOnly">> ELSE <<"ReadWrite">>

\* C9 (as claimed): to_daccess returns a canonical DataAccess value it is
\* given: ReadOnly for DataAccess.ReadOnly, ReadWrite for DataAccess.ReadWrite.
C9_CanonicalAccessKept ==
    \A a \in {"ReadOnly", "ReadWrite"} :
        (Ended /\ arg = DataAccessValue(a)) =>
            /\ call = "returned"
            /\ ret.value = <<a>>

\* C10 (as claimed): to_daccess(None) returns DataAccess.ReadWrite.
C10_NoneIsReadWrite ==
    (Ended /\ arg = NoneValue) =>
        /\ call = "returned"
        /\ ret.value = <<"ReadWrite">>

-----------------------------------------------------------------------------
(* Properties of ScalarNumberFilter *)

\* C11 (as claimed): for numbers a and b the filter returns True if and only
\* if |a - b| is greater than EpsilonError, so that two numbers that differ
\* by no more than EpsilonError are reported as unchanged.
C11_FilterWithinEpsilon ==
    call = "returned" =>
        ret.value = <<fabs(arg[1] - arg[2]) > EpsilonError>>

-----------------------------------------------------------------------------
(* Properties of the classification sets *)

\* C15 (as claimed): once the static table is expanded, the entry of every
\* element type of TYPE_MOVEABLE_ELEMENTS holds "Moveable" and the entry of
\* every element type of TYPE_ACQUIRABLE_ELEMENTS holds "Acquirable".
C15_SetsAgreeWithInterfaces ==
    (pc = "done" /\ INTERFACES = StaticINTERFACES) =>
        /\ \A t \in TYPE_MOVEABLE_ELEMENTS :
              /\ t \in DOMAIN INTERFACES_EXPANDED
              /\ "Moveable" \in INTERFACES_EXPANDED[t]
        /\ \A t \in TYPE_ACQUIRABLE_ELEMENTS :
              /\ t \in DOMAIN INTERFACES_EXPANDED
              /\ "Acquirable" \in INTERFACES_EXPANDED[t]

-----------------------------------------------------------------------------
(* Properties of QDoor *)

\* C14: a record-data event of type Change or Periodic makes the base handler
\* run and then the signal recordDataUpdated be emitted once with the base
\* handler's result, which is also returned; an event of any other type runs
\* no base handler, emits nothing and leaves the door as it was.
C14_RecordDataRelay ==
    [][ IF arg'[1] \in CHANGE_EVTS
        THEN \E res \in RecordData :
               /\ log' = log \o <<BaseRun(arg'[1], arg'[2], res),
                                  Emitted(arg'[1], arg'[2], res)>>
               /\ ret' = Return(<<res>>)
        ELSE /\ log' = log
             /\ ret' = Return(<<"None">>) ]_vars

\* a Change event has been relayed and a later Config event has been dropped
C14_Witness ==
    /\ call = "returned"
    /\ arg[1] = "Config"
    /\ Len(log) = 2
    /\ log[1].what = "BaseDoor.recordDataReceived" /\ log[1].t = "Change"
    /\ log[2].what = "recordDataUpdated" /\ log[2].res = log[1].res

-----------------------------------------------------------------------------
(* Properties of ExpDescriptionEditor *)

\* C12: isDataChanged() tells whether the local configuration has been
\* modified since the last refresh: it is False when a reload that read the
\* door's configuration has just completed, and from then on it is True
\* exactly when the local configuration differs from the configuration read
\* at that refresh.
C12_ChangedSinceRefresh ==
    /\ lastOp = "reloaded" => ~isDataChanged
    /\ refreshed # None => (isDataChanged <=> _localConfig # refreshed)

\* C13: _originalConfiguration is the configuration most recently read from
\* or written to the door: it changes only in steps that exchange a
\* configuration with the door, also while there is no door object.
C13_OriginalIsLastExchanged ==
    _originalConfiguration = exchanged

=============================================================================
